---------------------------- MODULE Spec2Model ----------------------------
(***************************************************************************)
(* A model of pyiceberg.io: the location parser (interface.parse_location),*)
(* the FileIO scheme resolution (FileIO.fs_by_uri / FileIO.fs_by_scheme    *)
(* with its functools.cache memo) and the backend selector                *)
(* (io.load_file_io with _py_io_impl_argument_parser).                     *)
(*                                                                         *)
(* Python strings that the code inspects character by character (the      *)
(* locations) are sequences of one-character strings; strings the code    *)
(* only compares as a whole (the 'py-io-impl' values) are TLA+ strings.   *)
(* The result of a call is a record: Ok(v) for a returned value, Raise(e) *)
(* for an exception of class e that leaves the call.                      *)
(***************************************************************************)
EXTENDS Integers, Sequences, FiniteSets, TLC

VARIABLES
    \* ---- location parser run (SpecParse)
    p_uri,        \* the argument of parse_location
    p_ret,        \* Pending, or the outcome of parse_location(p_uri)
    \* ---- one run of load_file_io (SpecLoad)
    properties,   \* the configuration bag (a dict, here only its 'py-io-impl' key)
    location,     \* the optional location argument
    supports,     \* scheme sets the two backends can serve (their fs_by_scheme)
    pc,           \* position of the run inside load_file_io
    py_io_impl,   \* the local variable py_io_impl
    file_io,      \* the local variable file_io: a constructed instance or NoInstance
    warned,       \* the warnings emitted so far, in order
    constructed,  \* the backend classes constructed so far, in order
    probes,       \* the fs_by_uri probes made so far: <<class, outcome>>, in order
    outcome,      \* Pending, Ok(instance) or Raise(exception)
    \* ---- fs_by_scheme / fs_by_uri calls on one FileIO instance (SpecSeq, SpecConc)
    cache,        \* the functools.cache memo of FileIO.fs_by_scheme: key -> value
    memo,         \* per backend class, its instance's memo: scheme -> client
    made,         \* number of objects made so far (the next object's identity)
    t_pc,         \* per thread: position inside the cache wrapper
    t_arg,        \* per thread: how the call in progress passes which scheme
    t_val,        \* per thread: the value the call's body returned
    calls         \* the calls made so far, in order of their start

vars == <<p_uri, p_ret, properties, location, supports, pc, py_io_impl, file_io,
          warned, constructed, probes, outcome, cache, memo, made, t_pc, t_arg, t_val,
          calls>>

parseVars == <<p_uri, p_ret>>
loadVars  == <<properties, location, supports, pc, py_io_impl, file_io,
               warned, constructed, probes, outcome>>
cacheVars == <<cache, memo, made, t_pc, t_arg, t_val, calls>>

--------------------------------------------------------------------------
(* Bounds *)

\* longest generated tail of a location (the part after an optional "scheme:")
MaxLen == 4
\* longest generated host between the brackets of an authority
MaxHostLen == 4
\* calls made one after the other on the one FileIO instance
MaxCalls == 3
\* calls made by the threads together
MaxConcCalls == 3
\* threads calling fs_by_scheme concurrently
NumThreads == 2

--------------------------------------------------------------------------
(* Python values *)

Ok(v)    == [kind |-> "ok", val |-> v, exc |-> "none"]
Raise(e) == [kind |-> "raise", val |-> <<>>, exc |-> e]
Pending  == [kind |-> "pending", val |-> <<>>, exc |-> "none"]

\* a str object and a urllib.parse.ParseResult object, as os.fspath tells them apart
PyStr(s)         == [type |-> "str", v |-> s]
PyParseResult(r) == [type |-> "ParseResult", v |-> r]

\* the value None where a 'py-io-impl' string is expected
PyNone == [type |-> "NoneType", v |-> ""]

\* what fs_by_scheme returns: a filesystem client with its identity, or None
Client(n)  == [type |-> "client", id |-> n]
NoneClient == [type |-> "NoneType", id |-> 0]

\* no value: a key the memo does not hold, a call that has not returned
Absent == [type |-> "absent", id |-> 0]

--------------------------------------------------------------------------
(* Characters and strings *)

LowerLetters == {"a", "d", "e", "f", "h", "i", "l", "m", "o", "p", "r", "s", "t", "u",
                 "v", "w"}
UpperLetters == {"D", "F", "H", "S"}
Digits       == {"3"}

\* urllib.parse.scheme_chars, restricted to the characters the model uses
scheme_chars == LowerLetters \cup UpperLetters \cup Digits \cup {"+", "-", "."}

\* str.isascii() and str.isalpha() of one character
IsAsciiAlpha(c) == c \in LowerLetters \cup UpperLetters

\* str.lower() of one character, and of a string
LowerChar(c) ==
    CASE c = "D" -> "d"
      [] c = "F" -> "f"
      [] c = "H" -> "h"
      [] c = "S" -> "s"
      [] OTHER   -> c

RECURSIVE Lower(_)
Lower(s) == IF s = <<>> THEN <<>> ELSE <<LowerChar(Head(s))>> \o Lower(Tail(s))

\* c in s
Contains(s, c) == \E k \in 1..Len(s) : s[k] = c

\* s.find(c, start), 1-based; 0 when c does not occur at or after start
Find(s, c, start) ==
    LET hits == {k \in start..Len(s) : s[k] = c}
    IN  IF hits = {} THEN 0 ELSE CHOOSE k \in hits : \A j \in hits : k <= j

\* s.rfind(c), 1-based; 0 when c does not occur
RFind(s, c) ==
    LET hits == {k \in 1..Len(s) : s[k] = c}
    IN  IF hits = {} THEN 0 ELSE CHOOSE k \in hits : \A j \in hits : k >= j

\* s[from:], 1-based
From(s, from) == SubSeq(s, from, Len(s))

\* s[:upto], the characters before position upto (1-based)
Before(s, upto) == SubSeq(s, 1, upto - 1)


--------------------------------------------------------------------------
(* urllib.parse.urlparse, as interface.py imports and calls it.  Each step *)
(* of urlsplit is an operator that receives what the steps before it       *)
(* computed.  The model's strings hold no whitespace, control or non-ASCII *)
(* characters, so urlsplit's stripping of them and _checknetloc are not    *)
(* reached.                                                                *)

\* urllib.parse.uses_params: the schemes whose last path segment carries ";params"
\* ('', ftp, hdl, prospero, http, imap, https, shttp, rtsp, rtsps, rtspu, sip, sips,
\* mms, sftp, tel)
uses_params ==
    {<<>>, <<"f","t","p">>, <<"h","d","l">>, <<"p","r","o","s","p","e","r","o">>,
     <<"h","t","t","p">>, <<"i","m","a","p">>, <<"h","t","t","p","s">>,
     <<"s","h","t","t","p">>, <<"r","t","s","p">>, <<"r","t","s","p","s">>,
     <<"r","t","s","p","u">>, <<"s","i","p">>, <<"s","i","p","s">>, <<"m","m","s">>,
     <<"s","f","t","p">>, <<"t","e","l">>}

\* s.split(c, 1)[0] and, when c occurs in s, s.split(c, 1)[1] (else "")
BeforeChar(s, c) == IF Contains(s, c) THEN Before(s, Find(s, c, 1)) ELSE s
AfterChar(s, c)  == IF Contains(s, c) THEN From(s, Find(s, c, 1) + 1) ELSE <<>>

\* _splitnetloc(url, 2): the position (1-based) of the first of "/?#" at or after
\* position 3, or one past the end
NetlocEnd(url) ==
    IF \E k \in 3..Len(url) : url[k] \in {"/", "?", "#"}
    THEN CHOOSE k \in 3..Len(url) :
             /\ url[k] \in {"/", "?", "#"}
             /\ \A j \in 3..(k - 1) : url[j] \notin {"/", "?", "#"}
    ELSE Len(url) + 1

\* urlsplit, the query: `if '?' in url: url, query = url.split('?', 1)`
SplitQuery(scheme, netloc, url, fragment) ==
    Ok([scheme |-> scheme, netloc |-> netloc, path |-> BeforeChar(url, "?"),
        query |-> AfterChar(url, "?"), fragment |-> fragment])

\* urlsplit, the fragment: `if '#' in url: url, fragment = url.split('#', 1)`
SplitFragment(scheme, netloc, url) ==
    SplitQuery(scheme, netloc, BeforeChar(url, "#"), AfterChar(url, "#"))

\* s.split(c)
RECURSIVE SplitOn(_, _)
SplitOn(s, c) ==
    IF Contains(s, c)
    THEN <<BeforeChar(s, c)>> \o SplitOn(AfterChar(s, c), c)
    ELSE <<s>>

\* ipaddress._BaseV6._HEX_DIGITS, restricted to the characters the model uses
HEX_DIGITS == {"a", "d", "e", "f", "D", "F", "3"}

\* ipaddress._BaseV6._parse_hextet accepts the part: hexadecimal digits, at most 4
\* (int(part, 16) rejects the empty part)
IsHextet(part) ==
    /\ part # <<>>
    /\ Len(part) <= 4
    /\ \A k \in 1..Len(part) : part[k] \in HEX_DIGITS

\* ipaddress._BaseV6._ip_int_from_string accepts parts, the address split at ":",
\* whose only empty part besides the ends is parts[skip] (the "::"): an end is
\* empty only next to the "::", at least one group is elided, and the parts on
\* either side are hextets
IPv6Elided(parts, skip) ==
    /\ parts[1] = <<>> => skip = 2
    /\ parts[Len(parts)] = <<>> => skip = Len(parts) - 1
    /\ (IF parts[1] = <<>> THEN 0 ELSE skip - 1)
         + (IF parts[Len(parts)] = <<>> THEN 0 ELSE Len(parts) - skip) <= 7
    /\ \A k \in 1..Len(parts) :
          (k < skip /\ parts[1] # <<>>) \/ (k > skip /\ parts[Len(parts)] # <<>>)
              => IsHextet(parts[k])

\* ipaddress._BaseV6._ip_int_from_string accepts parts, the address split at ":".
\* The model's hosts hold no decimal digit next to a ".", so a last part with a "."
\* (an IPv4 suffix) is never a valid one
IPv6Parts(parts) ==
    /\ Len(parts) >= 3
    /\ ~Contains(parts[Len(parts)], ".")
    /\ Len(parts) <= 9
    /\ Cardinality({k \in 2..(Len(parts) - 1) : parts[k] = <<>>}) <= 1
    /\ IF \E k \in 2..(Len(parts) - 1) : parts[k] = <<>>
       THEN IPv6Elided(parts, CHOOSE k \in 2..(Len(parts) - 1) : parts[k] = <<>>)
       ELSE /\ Len(parts) = 8
            /\ \A k \in 1..8 : IsHextet(parts[k])

\* ipaddress.ip_address(hostname) returns an IPv6Address.  The model's hosts hold
\* no "%" and no "/", and none is a dotted-decimal IPv4 address
IsIPv6Address(hostname) ==
    /\ hostname # <<>>
    /\ IPv6Parts(SplitOn(hostname, ":"))

\* re.match(r"\Av[a-fA-F0-9]+\..+\Z", hostname): "v", hexadecimal digits up to the
\* first ".", and at least one character after it
IsIPvFuture(hostname) ==
    /\ Find(hostname, ".", 1) >= 3
    /\ \A k \in 2..(Find(hostname, ".", 1) - 1) : hostname[k] \in HEX_DIGITS
    /\ Len(hostname) > Find(hostname, ".", 1)

\* _check_bracketed_host(hostname) returns without raising ValueError
check_bracketed_host(hostname) ==
    IF hostname # <<>> /\ hostname[1] = "v"
    THEN IsIPvFuture(hostname)
    ELSE IsIPv6Address(hostname)

\* urlsplit, the check of the authority: a bracket without its partner is
\* ValueError("Invalid IPv6 URL"); with both brackets,
\* netloc.partition('[')[2].partition(']')[0] goes to _check_bracketed_host
CheckNetloc(scheme, netloc, url) ==
    IF \/ Contains(netloc, "[") /\ ~Contains(netloc, "]")
       \/ Contains(netloc, "]") /\ ~Contains(netloc, "[")
    THEN Raise("ValueError")
    ELSE IF /\ Contains(netloc, "[")
            /\ Contains(netloc, "]")
            /\ ~check_bracketed_host(BeforeChar(AfterChar(netloc, "["), "]"))
    THEN Raise("ValueError")
    ELSE SplitFragment(scheme, netloc, url)

\* urlsplit, the authority: `if url[:2] == '//': netloc, url = _splitnetloc(url, 2)`
SplitNetloc(scheme, url) ==
    IF Len(url) >= 2 /\ url[1] = "/" /\ url[2] = "/"
    THEN CheckNetloc(scheme, SubSeq(url, 3, NetlocEnd(url) - 1),
                     From(url, NetlocEnd(url)))
    ELSE SplitFragment(scheme, <<>>, url)

\* urlsplit, the scheme: i is url.find(':'); the prefix is a scheme when it starts
\* with a letter and holds only scheme_chars, and is lowercased
SplitScheme(url, i) ==
    IF /\ i > 1
       /\ IsAsciiAlpha(url[1])
       /\ \A k \in 1..(i - 1) : url[k] \in scheme_chars
    THEN SplitNetloc(Lower(Before(url, i)), From(url, i + 1))
    ELSE SplitNetloc(<<>>, url)

\* urlsplit(url): Ok of the 5 components, or Raise("ValueError")
urlsplit(url) == SplitScheme(url, Find(url, ":", 1))

\* _splitparams(url), called only when ";" occurs in url: <<path, params>>
splitparams(url) ==
    IF Contains(url, "/") /\ Find(url, ";", RFind(url, "/")) = 0
    THEN <<url, <<>> >>
    ELSE IF Contains(url, "/")
    THEN <<Before(url, Find(url, ";", RFind(url, "/"))),
           From(url, Find(url, ";", RFind(url, "/")) + 1)>>
    ELSE <<Before(url, Find(url, ";", 1)), From(url, Find(url, ";", 1) + 1)>>

\* urlparse, the ParseResult from the SplitResult r and <<path, params>>
ParseResult(r, sp) ==
    Ok([scheme |-> r.scheme, netloc |-> r.netloc, path |-> sp[1],
        params |-> sp[2], query |-> r.query, fragment |-> r.fragment])

\* urlparse, after urlsplit: `if scheme in uses_params and ';' in url`
ParseSplit(sr) ==
    IF sr.kind = "raise" THEN sr
    ELSE IF sr.val.scheme \in uses_params /\ Contains(sr.val.path, ";")
    THEN ParseResult(sr.val, splitparams(sr.val.path))
    ELSE ParseResult(sr.val, <<sr.val.path, <<>> >>)

\* urlparse(url): Ok of the 6 components, or the exception of urlsplit
urlparse(url) == ParseSplit(urlsplit(url))

--------------------------------------------------------------------------
(* os.path.abspath (posixpath), as parse_location calls it *)

\* os.getcwd(): the working directory of the process
Cwd == <<"/", "w">>

\* s.split("/")
RECURSIVE Split(_)
Split(s) ==
    IF Contains(s, "/")
    THEN <<BeforeChar(s, "/")>> \o Split(AfterChar(s, "/"))
    ELSE <<s>>

\* "/".join(comps)
RECURSIVE Join(_)
Join(comps) ==
    IF comps = <<>> THEN <<>>
    ELSE IF Len(comps) = 1 THEN comps[1]
    ELSE comps[1] \o <<"/">> \o Join(Tail(comps))

\* the loop of posixpath.normpath over the components, from an initial new_comps
RECURSIVE NormComps(_, _, _)
NormComps(comps, new, initial) ==
    IF comps = <<>> THEN new
    ELSE IF Head(comps) = <<>> \/ Head(comps) = <<".">>
    THEN NormComps(Tail(comps), new, initial)
    ELSE IF \/ Head(comps) # <<".", ".">>
            \/ (initial = 0 /\ new = <<>>)
            \/ (new # <<>> /\ new[Len(new)] = <<".", ".">>)
    THEN NormComps(Tail(comps), Append(new, Head(comps)), initial)
    ELSE IF new # <<>>
    THEN NormComps(Tail(comps), SubSeq(new, 1, Len(new) - 1), initial)
    ELSE NormComps(Tail(comps), new, initial)

\* s starts with n slashes
StartsWithSlashes(s, n) == Len(s) >= n /\ \A k \in 1..n : s[k] = "/"

\* normpath's initial_slashes: 0, 1, or 2 for exactly two leading slashes
InitialSlashes(path) ==
    IF ~StartsWithSlashes(path, 1) THEN 0
    ELSE IF StartsWithSlashes(path, 2) /\ ~StartsWithSlashes(path, 3) THEN 2
    ELSE 1

\* normpath's last lines: `path = '/' * initial_slashes + path; return path or '.'`
NormResult(initial, body) ==
    IF initial = 0 THEN (IF body = <<>> THEN <<".">> ELSE body)
    ELSE IF initial = 1 THEN <<"/">> \o body
    ELSE <<"/", "/">> \o body

\* posixpath.normpath(path)
normpath(path) ==
    IF path = <<>> THEN <<".">>
    ELSE NormResult(InitialSlashes(path),
                    Join(NormComps(Split(path), <<>>, InitialSlashes(path))))

\* os.fspath(obj): a str passes, any other object of the model is a TypeError
fspath(obj) ==
    IF obj.type = "str" THEN Ok(obj.v) ELSE Raise("TypeError")

\* posixpath.abspath after os.fspath: join with the working directory, normalise
AbsOfPath(fp) ==
    IF fp.kind = "raise" THEN fp
    ELSE IF fp.val # <<>> /\ fp.val[1] = "/" THEN Ok(normpath(fp.val))
    ELSE IF Cwd[Len(Cwd)] = "/" THEN Ok(normpath(Cwd \o fp.val))
    ELSE Ok(normpath(Cwd \o <<"/">> \o fp.val))

\* posixpath.abspath(obj)
abspath(obj) == AbsOfPath(fspath(obj))

--------------------------------------------------------------------------
(* interface.parse_location *)

FILE   == <<"f","i","l","e">>
HDFS   == <<"h","d","f","s">>
VIEWFS == <<"v","i","e","w","f","s">>

\* line 255: `return "file", uri.netloc, os.path.abspath(uri)` with the outcome ap
\* of the abspath call
FileLocation(u, ap) ==
    IF ap.kind = "raise" THEN ap ELSE Ok(<<FILE, u.netloc, ap.val>>)

\* lines 254-259, u being the ParseResult.  The parameter uri was rebound to the
\* ParseResult on line 253, so the scheme-less branch hands the ParseResult, not
\* the string, to os.path.abspath.
LocationOfResult(u) ==
    IF u.scheme = <<>>
    THEN FileLocation(u, abspath(PyParseResult(u)))
    ELSE IF u.scheme \in {HDFS, VIEWFS}
    THEN Ok(<<u.scheme, u.netloc, u.path>>)
    ELSE Ok(<<u.scheme, u.netloc, u.netloc \o u.path>>)

\* lines 253-259 after the urlparse call: its exception leaves parse_location
LocationOfParsed(parsed) ==
    IF parsed.kind = "raise" THEN parsed ELSE LocationOfResult(parsed.val)

\* parse_location(uri)
parse_location(uri) == LocationOfParsed(urlparse(uri))

--------------------------------------------------------------------------
(* Idle values of the three groups of variables *)

Threads        == 1..NumThreads
EmptyDict      == [k \in {} |-> ""]
NoLocation     == [some |-> FALSE, s |-> <<>>]
SomeLocation(s) == [some |-> TRUE, s |-> s]
NoInstance     == [cls |-> "none", id |-> 0]
NoCall         == [how |-> "", scheme |-> <<>>]

ParseIdle ==
    /\ p_uri = <<>>
    /\ p_ret = Pending

LoadIdle ==
    /\ properties = EmptyDict
    /\ location = NoLocation
    /\ supports = [PyArrowFileIO |-> {}, FsspecFileIO |-> {}]
    /\ pc = "idle"
    /\ py_io_impl = "unset"
    /\ file_io = NoInstance
    /\ warned = <<>>
    /\ constructed = <<>>
    /\ probes = <<>>
    /\ outcome = Pending

CacheIdle ==
    /\ cache = <<>>
    /\ memo = [PyArrowFileIO |-> <<>>, FsspecFileIO |-> <<>>]
    /\ made = 0
    /\ t_pc = [t \in Threads |-> "idle"]
    /\ t_arg = [t \in Threads |-> NoCall]
    /\ t_val = [t \in Threads |-> Absent]
    /\ calls = <<>>

--------------------------------------------------------------------------
(* SpecParse: parse_location applied to every generated location *)

\* the characters of a generated tail: a letter and the delimiters urlparse reads
TailChars == {"a", "/", ":", "?", "#", ";", "[", "]"}

\* the characters of a generated bracketed host: a hexadecimal digit, the ":" of an
\* IPv6 address, and the "v" and "." of an IPvFuture address
HostChars == {"a", ":", "v", "."}

Hosts == UNION {[1..n -> HostChars] : n \in 0..MaxHostLen}

\* tails with an authority that holds a bracketed host, alone or after a user name,
\* with and without a path
BracketTails ==
    {<<"/", "/">> \o pre \o <<"[">> \o h \o <<"]">> \o post :
        pre \in {<<>>, <<"a">>}, h \in Hosts, post \in {<<>>, <<"/", "a">>}}

Tails == UNION {[1..n -> TailChars] : n \in 0..MaxLen} \cup BracketTails

\* prefixes put before ":"; the last one starts with a digit and is no scheme
SchemeNames == {HDFS, VIEWFS, FILE, <<"H","D","F","S">>, <<"s","3">>,
                <<"h","t","t","p">>, <<"s","i","p">>, <<"3","s">>}

Locations == Tails \cup {n \o <<":">> \o t : n \in SchemeNames, t \in Tails}

ParseInit ==
    /\ p_uri \in Locations
    /\ p_ret = Pending
    /\ LoadIdle
    /\ CacheIdle

ParseLocation ==
    /\ p_ret = Pending
    /\ p_ret' = parse_location(p_uri)
    /\ UNCHANGED <<p_uri, loadVars, cacheVars>>

ParseNext == ParseLocation

SpecParse == ParseInit /\ [][ParseNext]_vars

--------------------------------------------------------------------------
(* The components of a location, stated from the URI syntax                *)
(* <scheme>:[//<authority>]<path>[;<params>][?<query>][#<fragment>]        *)
(* and not from urlparse's procedure: the reference the parser's results   *)
(* are compared with.                                                      *)

\* the longest prefix of s that holds none of the characters of D
MaxPrefixWithout(s, D) ==
    LET n == CHOOSE n \in 0..Len(s) :
                 /\ \A k \in 1..n : s[k] \notin D
                 /\ n = Len(s) \/ s[n + 1] \in D
    IN  SubSeq(s, 1, n)

\* u starts with a scheme name (a letter, then letters, digits, "+", "-", ".")
\* followed by ":"
HasExplicitScheme(u) ==
    \E i \in 2..Len(u) :
        /\ u[i] = ":"
        /\ \A k \in 1..(i - 1) : u[k] \in scheme_chars
        /\ IsAsciiAlpha(u[1])

RefScheme(u) == Lower(MaxPrefixWithout(u, {":"}))

\* what follows "scheme:"
RefHier(u) == From(u, Len(RefScheme(u)) + 2)

RefHasAuthority(u) ==
    LET h == RefHier(u) IN Len(h) >= 2 /\ SubSeq(h, 1, 2) = <<"/", "/">>

RefAuthority(u) ==
    IF RefHasAuthority(u)
    THEN MaxPrefixWithout(From(RefHier(u), 3), {"/", "?", "#"})
    ELSE <<>>

\* the path with the parameters of its last segment, up to the query or fragment
RefPathAndParams(u) ==
    LET h == IF RefHasAuthority(u)
             THEN From(RefHier(u), 3 + Len(RefAuthority(u)))
             ELSE RefHier(u)
    IN  MaxPrefixWithout(h, {"?", "#"})

\* the schemes whose syntax gives the last path segment ";parameters"
RefSchemeTakesParams(u) ==
    RefScheme(u) \in
        {<<"f","t","p">>, <<"h","d","l">>, <<"p","r","o","s","p","e","r","o">>,
         <<"h","t","t","p">>, <<"i","m","a","p">>, <<"h","t","t","p","s">>,
         <<"s","h","t","t","p">>, <<"r","t","s","p">>, <<"r","t","s","p","s">>,
         <<"r","t","s","p","u">>, <<"s","i","p">>, <<"s","i","p","s">>, <<"m","m","s">>,
         <<"s","f","t","p">>, <<"t","e","l">>}

RefPath(u) ==
    LET pp   == RefPathAndParams(u)
        segs == {k \in 1..Len(pp) : pp[k] = "/"}
        last == IF segs = {} THEN 1 ELSE CHOOSE k \in segs : \A j \in segs : j <= k
    IN  IF RefSchemeTakesParams(u)
        THEN SubSeq(pp, 1, last - 1) \o MaxPrefixWithout(From(pp, last), {";"})
        ELSE pp

\* the triple the location parser is to return for a location with a scheme
RefTriple(u) ==
    <<RefScheme(u), RefAuthority(u),
      IF RefScheme(u) \in {HDFS, VIEWFS} THEN RefPath(u)
      ELSE RefAuthority(u) \o RefPath(u)>>

--------------------------------------------------------------------------
(* Claims about parse_location, under SpecParse *)

\* C4: for every location without an explicit scheme, parse_location returns,
\* without error, ("file", empty authority, absolute path of the input string).
\* The code raises TypeError instead (os.path.abspath is given the ParseResult).
C4_SchemelessIsLocalFile ==
    (p_ret # Pending /\ ~HasExplicitScheme(p_uri))
        => p_ret = Ok(<<FILE, <<>>, abspath(PyStr(p_uri)).val>>)

\* C5: for every location with an explicit scheme, parse_location returns
\* (scheme, authority, p) with p the path for hdfs and viewfs and authority + path
\* for every other scheme.  The code raises ValueError instead when urlparse
\* rejects the authority.
C5_SchemeTriple ==
    (p_ret # Pending /\ HasExplicitScheme(p_uri))
        => p_ret = Ok(RefTriple(p_uri))

--------------------------------------------------------------------------
(* FileIO.fs_by_scheme and FileIO.fs_by_uri.  interface.py declares        *)
(* fs_by_scheme abstract and memoizes its body, which returns              *)
(* NotImplemented, with functools.cache.  Every instance is of a backend   *)
(* class that overrides it; the backends are not part of interface.py, so  *)
(* where fs_by_uri calls self.fs_by_scheme the override is the memoized    *)
(* scheme resolution of the FileIO contract: the instance holds a memo     *)
(* from scheme to client, filled on the first resolution of a scheme.      *)

\* The ways a call can pass the two parameters of fs_by_scheme(self, scheme); on
\* an instance (io.fs_by_scheme(...)) self is bound positionally, on the class
\* (FileIO.fs_by_scheme(...)) it can be passed by keyword too:
\*   "positional"   f(self, scheme)          "self_scheme"  f(self=self, scheme=scheme)
\*   "keyword"      f(self, scheme=scheme)   "scheme_self"  f(scheme=scheme, self=self)
CallForms == {"positional", "keyword", "self_scheme", "scheme_self"}

\* the objects a key is made of: an instance, a str, and functools' kwd_mark
KeyInstance(self) == [type |-> "instance", inst |-> self, s |-> <<>>]
KeyStr(str)       == [type |-> "str", inst |-> NoInstance, s |-> str]
KwdMark           == [type |-> "kwd_mark", inst |-> NoInstance, s |-> <<>>]

\* the keyword names "self" and "scheme"
SelfName   == KeyStr(<<"s","e","l","f">>)
SchemeName == KeyStr(<<"s","c","h","e","m","e">>)

\* the positional arguments of a call of the given form
CallArgs(self, how, scheme) ==
    CASE how = "positional" -> <<KeyInstance(self), KeyStr(scheme)>>
      [] how = "keyword"    -> <<KeyInstance(self)>>
      [] OTHER              -> <<>>

\* the keyword arguments of a call of the given form, flattened in call order
CallKwds(self, how, scheme) ==
    CASE how = "positional"  -> <<>>
      [] how = "keyword"     -> <<SchemeName, KeyStr(scheme)>>
      [] how = "self_scheme" -> <<SelfName, KeyInstance(self), SchemeName, KeyStr(scheme)>>
      [] OTHER               -> <<SchemeName, KeyStr(scheme), SelfName, KeyInstance(self)>>

\* functools._make_key(args, kwds, typed=False): the positional arguments, then,
\* when there are keyword arguments, kwd_mark and the keyword items in call order
MakeKey(args, kwds) == IF kwds = <<>> THEN args ELSE args \o <<KwdMark>> \o kwds

\* The key functools.cache makes of a call of fs_by_scheme: every form of passing
\* one instance and one scheme is a key of its own
CacheKey(self, how, scheme) ==
    MakeKey(CallArgs(self, how, scheme), CallKwds(self, how, scheme))

\* The lookup of the functools.cache wrapper: is the key memoized
CacheHit(c, key) == key \in DOMAIN c

\* The store of the functools.cache wrapper after a miss: cache[key] = result,
\* whatever the key holds by then
CachePut(c, key, v) ==
    [k \in DOMAIN c \cup {key} |-> IF k = key THEN v ELSE c[k]]

\* cache_clear() of the functools.cache wrapper: the memo is emptied
CacheClear(c) == <<>>

\* the value NotImplemented, one object for the whole process
NotImplemented == [type |-> "NotImplementedType", id |-> 0]

\* A body that returns a new exception object on every run,
\* `return NotImplementedError()`, the (n+1)-th object made
FileIO_fs_by_scheme_body_new_error(self, scheme, n) ==
    [type |-> "NotImplementedError", id |-> n + 1]

\* lines 233-242: the body of FileIO.fs_by_scheme, run when n objects have been
\* made: it makes none and returns the constant NotImplemented
FileIO_fs_by_scheme_body(self, scheme, n) == NotImplemented

\* the number of objects made once a body, run when n had been made, returned v
MadeAfter(v, n) == IF v.id > n THEN v.id ELSE n

\* FileIO.fs_by_scheme as interface.py defines it, the memoized body, called with
\* self and scheme in the given form and run to its end without interleaving, from
\* the memo c with n objects made: the value returned, the memo and the count
\* afterwards
FileIO_fs_by_scheme(self, how, scheme, c, n) ==
    IF CacheHit(c, CacheKey(self, how, scheme))
    THEN [ret |-> c[CacheKey(self, how, scheme)], cache |-> c, made |-> n]
    ELSE [ret |-> FileIO_fs_by_scheme_body(self, scheme, n),
          cache |-> CachePut(c, CacheKey(self, how, scheme),
                             FileIO_fs_by_scheme_body(self, scheme, n)),
          made |-> MadeAfter(FileIO_fs_by_scheme_body(self, scheme, n), n)]

\* What a backend resolves a scheme to on first access: a new client (the
\* (n+1)-th object made) for a scheme the backend serves, None ("unsupported")
\* for any other scheme
Backend_fs_by_scheme_body(self, scheme, n) ==
    IF scheme \in supports[self.cls] THEN Client(n + 1) ELSE NoneClient

\* self.fs_by_scheme(scheme) on an instance of a backend, from the memos m with n
\* objects made: the memoized resolution of the scheme, made and memoized on the
\* first access.  The value returned, the memos and the count afterwards
Backend_fs_by_scheme(self, scheme, m, n) ==
    IF scheme \in DOMAIN m[self.cls]
    THEN [ret |-> m[self.cls][scheme], memo |-> m, made |-> n]
    ELSE [ret |-> Backend_fs_by_scheme_body(self, scheme, n),
          memo |-> [m EXCEPT ![self.cls] =
                       [k \in DOMAIN @ \cup {scheme} |->
                           IF k = scheme
                           THEN Backend_fs_by_scheme_body(self, scheme, n)
                           ELSE @[k]]],
          made |-> MadeAfter(Backend_fs_by_scheme_body(self, scheme, n), n)]

\* self.parse_uri(uri): the location parser
parse_uri(uri) == parse_location(uri)

\* fs_by_uri(self, uri), lines 228-229: the scheme of the parsed URI, passed to
\* self.fs_by_scheme.  The outcome (Ok of fs_by_scheme's value, or the parser's
\* exception), the memos and the count afterwards
fs_by_uri(self, uri, m, n) ==
    IF parse_uri(uri).kind = "raise"
    THEN [ret |-> parse_uri(uri), memo |-> m, made |-> n]
    ELSE [ret |-> Ok(Backend_fs_by_scheme(self, parse_uri(uri).val[1], m, n).ret),
          memo |-> Backend_fs_by_scheme(self, parse_uri(uri).val[1], m, n).memo,
          made |-> Backend_fs_by_scheme(self, parse_uri(uri).val[1], m, n).made]

--------------------------------------------------------------------------
(* io/__init__.py: the backend selector *)

FSSPEC         == "fsspec"
PYARROW        == "pyarrow"
ARROW_FILE_IO  == "pyiceberg.io.pyarrow.PyArrowFileIO"
FSSPEC_FILE_IO == "pyiceberg.io.fsspec.FsspecFileIO"
PY_IO_IMPL     == "py-io-impl"
DEFAULT_PY_IO_IMPL == PYARROW

\* properties.get(key, default)
properties_get(d, key, default) == IF key \in DOMAIN d THEN d[key] ELSE default

\* _py_io_impl_argument_parser without the branch of the deprecated PyArrowFileIO
\* spelling
py_io_impl_argument_parser_no_arrow(impl) ==
    IF impl \in {FSSPEC, PYARROW}
    THEN [ret |-> PyStr(impl), warn |-> <<>>]
    ELSE IF impl = FSSPEC_FILE_IO
    THEN [ret |-> PyStr(FSSPEC), warn |-> <<"deprecated FsspecFileIO spelling">>]
    ELSE [ret |-> PyNone, warn |-> <<>>]

\* _py_io_impl_argument_parser(py_io_impl): the value returned and the warnings
\* emitted.  The last branch builds a ValueError and does not raise it, so the
\* function falls off its end and returns None.
py_io_impl_argument_parser(impl) ==
    IF impl \in {FSSPEC, PYARROW}
    THEN [ret |-> PyStr(impl), warn |-> <<>>]
    ELSE IF impl = FSSPEC_FILE_IO
    THEN [ret |-> PyStr(FSSPEC), warn |-> <<"deprecated FsspecFileIO spelling">>]
    ELSE IF impl = ARROW_FILE_IO
    THEN [ret |-> PyStr(PYARROW), warn |-> <<"deprecated PyArrowFileIO spelling">>]
    ELSE [ret |-> PyNone, warn |-> <<>>]

\* bool(location) of the optional argument: None and "" are false
Truthy(loc) == loc.some /\ loc.s # <<>>

\* the class of the branch load_file_io takes for the normalised py_io_impl
BranchClass(impl) ==
    IF impl = PyStr(PYARROW) THEN "PyArrowFileIO" ELSE "FsspecFileIO"

\* the class the same branch falls back to
OtherClass(cls) ==
    IF cls = "PyArrowFileIO" THEN "FsspecFileIO" ELSE "PyArrowFileIO"

\* the instance a constructor call returns: the k-th instance made in the run
NewInstance(cls, k) == [cls |-> cls, id |-> k]

\* the warning of lines 118-119 and 126-127
FallbackWarning(cls) ==
    IF cls = "PyArrowFileIO"
    THEN "not supported by PyArrowFileIO, load by FsspecFileIO instead"
    ELSE "not supported by FsspecFileIO, load by PyArrowFileIO instead"

\* lines 111-112: read the key, normalise it
LoadNormalize ==
    /\ pc = "start"
    /\ LET r == py_io_impl_argument_parser(
                    properties_get(properties, PY_IO_IMPL, DEFAULT_PY_IO_IMPL))
       IN  /\ py_io_impl' = r.ret
           /\ warned' = warned \o r.warn
    /\ pc' = "construct"
    /\ UNCHANGED <<properties, location, supports, file_io, constructed, probes,
                   outcome, parseVars, cacheVars>>

\* lines 114-116 and 122-124 importing and constructing both backends at once
LoadConstruct_eager ==
    /\ pc = "construct"
    /\ file_io' = NewInstance(BranchClass(py_io_impl), Len(constructed) + 1)
    /\ constructed' = constructed \o
                        <<BranchClass(py_io_impl), OtherClass(BranchClass(py_io_impl))>>
    /\ pc' = "probe"
    /\ UNCHANGED <<properties, location, supports, py_io_impl, warned, probes,
                   outcome, parseVars, cacheVars>>

\* lines 114-116 and 122-124: import and construct the configured backend
LoadConstruct ==
    /\ pc = "construct"
    /\ LET cls == BranchClass(py_io_impl)
       IN  /\ file_io' = NewInstance(cls, Len(constructed) + 1)
           /\ constructed' = Append(constructed, cls)
    /\ pc' = "probe"
    /\ UNCHANGED <<properties, location, supports, py_io_impl, warned, probes,
                   outcome, parseVars, cacheVars>>

\* lines 117-119 and 125-127: `if location and file_io.fs_by_uri(location) is None`
\* with the warning of the fallback
LoadProbe ==
    /\ pc = "probe"
    /\ IF ~Truthy(location)
       THEN /\ pc' = "return"
            /\ UNCHANGED <<warned, probes, outcome, memo, made>>
       ELSE LET r == fs_by_uri(file_io, location.s, memo, made)
            IN  /\ probes' = Append(probes, [io |-> file_io, ret |-> r.ret])
                /\ memo' = r.memo
                /\ made' = r.made
                /\ IF r.ret.kind = "raise"
                   THEN /\ outcome' = r.ret
                        /\ pc' = "done"
                        /\ UNCHANGED warned
                   ELSE IF r.ret.val = NoneClient
                   THEN /\ warned' = Append(warned, FallbackWarning(file_io.cls))
                        /\ pc' = "fallback"
                        /\ UNCHANGED outcome
                   ELSE /\ pc' = "return"
                        /\ UNCHANGED <<warned, outcome>>
    /\ UNCHANGED <<properties, location, supports, py_io_impl, file_io, constructed,
                   parseVars, cache, t_pc, t_arg, t_val, calls>>

\* lines 120-121 and 128-129 constructing the other backend without binding it to
\* file_io
LoadConstructAlternate_unbound ==
    /\ pc = "fallback"
    /\ constructed' = Append(constructed, OtherClass(file_io.cls))
    /\ pc' = "return"
    /\ UNCHANGED <<properties, location, supports, py_io_impl, file_io, warned,
                   probes, outcome, parseVars, cacheVars>>

\* lines 120-121 and 128-129: import and construct the other backend
LoadConstructAlternate ==
    /\ pc = "fallback"
    /\ LET cls == OtherClass(file_io.cls)
       IN  /\ file_io' = NewInstance(cls, Len(constructed) + 1)
           /\ constructed' = Append(constructed, cls)
    /\ pc' = "return"
    /\ UNCHANGED <<properties, location, supports, py_io_impl, warned, probes,
                   outcome, parseVars, cacheVars>>

\* line 130
LoadReturn ==
    /\ pc = "return"
    /\ outcome' = Ok(file_io)
    /\ pc' = "done"
    /\ UNCHANGED <<properties, location, supports, py_io_impl, file_io, warned,
                   constructed, probes, parseVars, cacheVars>>

\* the 'py-io-impl' values tried: the four recognized spellings and three others
ImplValues == {PYARROW, FSSPEC, ARROW_FILE_IO, FSSPEC_FILE_IO, "PyArrow", "s3fs", ""}

S3 == <<"s", "3">>

\* the schemes a backend may or may not serve
Schemes == {FILE, S3, HDFS}

\* the location arguments tried: none, the empty string, and locations with and
\* without a scheme
LoadLocations ==
    {NoLocation, SomeLocation(<<>>),
     SomeLocation(S3 \o <<":", "/", "/", "a", "/", "a">>),
     SomeLocation(HDFS \o <<":", "/", "/", "a", "/", "a">>),
     SomeLocation(FILE \o <<":", "/", "a">>),
     SomeLocation(<<"/", "a">>)}

LoadInit ==
    /\ properties \in {EmptyDict} \cup {[k \in {PY_IO_IMPL} |-> v] : v \in ImplValues}
    /\ location \in LoadLocations
    /\ supports \in [{"PyArrowFileIO", "FsspecFileIO"} -> SUBSET Schemes]
    /\ pc = "start"
    /\ py_io_impl = "unset"
    /\ file_io = NoInstance
    /\ warned = <<>>
    /\ constructed = <<>>
    /\ probes = <<>>
    /\ outcome = Pending
    /\ ParseIdle
    /\ CacheIdle

LoadNext ==
    \/ LoadNormalize
    \/ LoadConstruct
    \/ LoadProbe
    \/ LoadConstructAlternate
    \/ LoadReturn

SpecLoad == LoadInit /\ [][LoadNext]_vars

--------------------------------------------------------------------------
(* Claims about load_file_io, under SpecLoad *)

RecognizedSpellings == {"pyarrow", "fsspec", "pyiceberg.io.pyarrow.PyArrowFileIO",
                        "pyiceberg.io.fsspec.FsspecFileIO"}
DeprecatedSpellings == {"pyiceberg.io.pyarrow.PyArrowFileIO",
                        "pyiceberg.io.fsspec.FsspecFileIO"}

KeyAbsent    == "py-io-impl" \notin DOMAIN properties
Unrecognized == ~KeyAbsent /\ properties["py-io-impl"] \notin RecognizedSpellings
Deprecated   == ~KeyAbsent /\ properties["py-io-impl"] \in DeprecatedSpellings
CanonicalOrAbsent == KeyAbsent \/ properties["py-io-impl"] \in {"pyarrow", "fsspec"}

\* the reference mapping of the 'py-io-impl' value to a backend
RefBackend ==
    IF KeyAbsent THEN "PyArrowFileIO"
    ELSE CASE properties["py-io-impl"] = "pyarrow" -> "PyArrowFileIO"
           [] properties["py-io-impl"] = "fsspec" -> "FsspecFileIO"
           [] properties["py-io-impl"] = "pyiceberg.io.pyarrow.PyArrowFileIO"
                                                  -> "PyArrowFileIO"
           [] properties["py-io-impl"] = "pyiceberg.io.fsspec.FsspecFileIO"
                                                  -> "FsspecFileIO"
           [] OTHER -> "none"

\* the scheme of the supplied location: its explicit scheme, else the local-file one
LocationScheme ==
    IF HasExplicitScheme(location.s) THEN RefScheme(location.s) ELSE FILE

Returned(cls) == outcome.kind = "ok" /\ outcome.val.cls = cls

\* the first probe of the run reported the scheme unsupported
ProbeSaidUnsupported == probes # <<>> /\ probes[1].ret = Ok(NoneClient)

\* C1: with a 'py-io-impl' value that is none of the four recognized spellings,
\* load_file_io constructs no backend and ends with an error, returning no FileIO.
\* The code returns a FsspecFileIO (or its fallback) instead.
C1_UnrecognizedFails ==
    Unrecognized =>
        /\ constructed = <<>>
        /\ pc = "done" => outcome.kind = "raise"

\* C2: with no location, load_file_io returns the backend of the reference mapping
\* of the recognized or absent 'py-io-impl' value, and emits exactly one warning for
\* a deprecated spelling and none otherwise.
C2_ReferenceMapping ==
    (pc = "done" /\ location = NoLocation /\ ~Unrecognized) =>
        /\ Returned(RefBackend)
        /\ Len(warned) = IF Deprecated THEN 1 ELSE 0

\* C2's case: a run without location and with a deprecated spelling has returned
C2_Witness ==
    /\ pc = "done"
    /\ location = NoLocation
    /\ ~KeyAbsent
    /\ properties["py-io-impl"] = "pyiceberg.io.pyarrow.PyArrowFileIO"
    /\ Returned("PyArrowFileIO")
    /\ Len(warned) = 1

\* C3: with a canonical or absent value and a non-empty location, a configured
\* backend whose probe reports the scheme unsupported makes load_file_io return the
\* alternate backend with exactly one warning and no exception; a configured backend
\* that serves the location's scheme is returned with no warning.  The code raises
\* TypeError for a location without a scheme (the parser's fault of C4).
C3_FallbackOrConfigured ==
    (pc = "done" /\ CanonicalOrAbsent /\ Truthy(location)) =>
        /\ ProbeSaidUnsupported =>
              Returned(OtherClass(RefBackend)) /\ Len(warned) = 1
        /\ LocationScheme \in supports[RefBackend] =>
              Returned(RefBackend) /\ warned = <<>>

\* C8: a backend is constructed only once chosen: the configured one first, the
\* alternate only after the configured one was probed with the location and
\* reported the scheme unsupported; one backend when no location is given or the
\* configured one serves the scheme; never more than two, each at most once.
C8_LazyConstruction ==
    /\ Len(constructed) <= 2
    /\ constructed # <<>> => pc \notin {"start", "construct"}
    /\ (constructed # <<>> /\ ~Unrecognized) => constructed[1] = RefBackend
    /\ probes # <<>> => probes[1].io = NewInstance(constructed[1], 1)
    /\ Len(constructed) = 2 =>
          /\ constructed[2] # constructed[1]
          /\ Len(probes) = 1
          /\ ProbeSaidUnsupported
    /\ (/\ pc = "done"
        /\ \/ ~location.some
           \/ Truthy(location) /\ LocationScheme \in supports[constructed[1]])
          => Len(constructed) = 1

\* C8's case: a run that constructed both backends has ended
C8_Witness ==
    /\ pc = "done"
    /\ constructed = <<"PyArrowFileIO", "FsspecFileIO">>
    /\ ProbeSaidUnsupported

\* C9 as stated: after the configured backend reported the scheme unsupported, the
\* alternate instance is probed with fs_by_uri exactly once and returned whatever
\* the probe reports; no backend is probed more than once.
C9_Original ==
    (pc = "done" /\ ProbeSaidUnsupported) =>
        /\ Returned(OtherClass(constructed[1]))
        /\ Cardinality({k \in 1..Len(probes) : probes[k].io = outcome.val}) = 1
        /\ \A j, k \in 1..Len(probes) : probes[j].io = probes[k].io => j = k

\* C9 amended: after the configured backend reported the scheme unsupported, the
\* alternate backend is constructed and returned without being probed (fs_by_uri is
\* called on it zero times); the configured backend was probed exactly once.
C9_AlternateNotProbed ==
    (pc = "done" /\ ProbeSaidUnsupported) =>
        /\ outcome = Ok(NewInstance(OtherClass(constructed[1]), 2))
        /\ probes = <<[io |-> NewInstance(constructed[1], 1), ret |-> Ok(NoneClient)]>>

\* C9's case: the fsspec backend was configured, reported the scheme unsupported,
\* and the run has returned
C9_Witness ==
    /\ pc = "done"
    /\ ProbeSaidUnsupported
    /\ constructed = <<"FsspecFileIO", "PyArrowFileIO">>
    /\ outcome.kind = "ok"

--------------------------------------------------------------------------
(* SpecSeq: calls made one after the other on one FileIO instance, an      *)
(* instance of a backend: FileIO.fs_by_scheme, the function interface.py   *)
(* defines, with the instance and a scheme passed in each form, its        *)
(* cache_clear(), and fs_by_uri.  Each entry of calls records the          *)
(* operation, the argument, how the scheme was passed, the scheme, the     *)
(* outcome, and whether the call made an object.                           *)

\* the instance the calls are made on
TheIO == NewInstance("PyArrowFileIO", 1)

\* the arguments of the fs_by_uri calls: with and without a scheme
SeqUris == {S3 \o <<":", "/", "/", "a", "/", "a">>,
            HDFS \o <<":", "/", "/", "a", "/", "a">>,
            FILE \o <<":", "/", "a">>,
            <<"/", "a">>}

\* the schemes of the fs_by_scheme calls
SeqSchemes == {S3, HDFS}

\* an entry of calls
SeqCall(op, arg, how, scheme, ret, fresh) ==
    [op |-> op, arg |-> arg, how |-> how, scheme |-> scheme, ret |-> ret,
     fresh |-> fresh]

SeqInit ==
    /\ supports \in {[PyArrowFileIO |-> x, FsspecFileIO |-> {}] : x \in SUBSET Schemes}
    /\ cache = <<>>
    /\ memo = [PyArrowFileIO |-> <<>>, FsspecFileIO |-> <<>>]
    /\ made = 0
    /\ calls = <<>>
    /\ t_pc = [t \in Threads |-> "idle"]
    /\ t_arg = [t \in Threads |-> NoCall]
    /\ t_val = [t \in Threads |-> Absent]
    /\ ParseIdle
    /\ properties = EmptyDict
    /\ location = NoLocation
    /\ pc = "idle"
    /\ py_io_impl = "unset"
    /\ file_io = TheIO
    /\ warned = <<>>
    /\ constructed = <<"PyArrowFileIO">>
    /\ probes = <<>>
    /\ outcome = Pending

\* FileIO.fs_by_scheme, the function of lines 231-242, called with file_io and a
\* scheme, in each form
SeqFsByScheme ==
    /\ Len(calls) < MaxCalls
    /\ \E how \in CallForms, scheme \in SeqSchemes :
          /\ cache' = FileIO_fs_by_scheme(file_io, how, scheme, cache, made).cache
          /\ made' = FileIO_fs_by_scheme(file_io, how, scheme, cache, made).made
          /\ calls' = Append(calls,
                 SeqCall("fs_by_scheme", scheme, how, scheme,
                         Ok(FileIO_fs_by_scheme(file_io, how, scheme, cache, made).ret),
                         FileIO_fs_by_scheme(file_io, how, scheme, cache, made).made
                             > made))
    /\ UNCHANGED <<memo, parseVars, loadVars, t_pc, t_arg, t_val>>

\* file_io.fs_by_uri(uri)
SeqFsByUri ==
    /\ Len(calls) < MaxCalls
    /\ \E uri \in SeqUris :
          /\ memo' = fs_by_uri(file_io, uri, memo, made).memo
          /\ made' = fs_by_uri(file_io, uri, memo, made).made
          /\ calls' = Append(calls,
                 SeqCall("fs_by_uri", uri, "positional",
                         IF parse_uri(uri).kind = "ok" THEN parse_uri(uri).val[1]
                         ELSE <<>>,
                         fs_by_uri(file_io, uri, memo, made).ret,
                         fs_by_uri(file_io, uri, memo, made).made > made))
    /\ UNCHANGED <<cache, parseVars, loadVars, t_pc, t_arg, t_val>>

\* FileIO.fs_by_scheme.cache_clear(): the memo of the function is emptied and None
\* returned
SeqCacheClear ==
    /\ Len(calls) < MaxCalls
    /\ cache' = CacheClear(cache)
    /\ calls' = Append(calls,
           SeqCall("cache_clear", <<>>, "", <<>>, Ok(NoneClient), FALSE))
    /\ UNCHANGED <<memo, made, parseVars, loadVars, t_pc, t_arg, t_val>>

SeqNext ==
    \/ SeqFsByScheme
    \/ SeqFsByUri
    \/ SeqCacheClear

SpecSeq == SeqInit /\ [][SeqNext]_vars

--------------------------------------------------------------------------
(* Claims about fs_by_scheme and fs_by_uri in sequential use, under SpecSeq *)

\* the fs_by_scheme calls that resolved scheme s on the instance
Resolutions(s) ==
    {k \in 1..Len(calls) : calls[k].op = "fs_by_scheme" /\ calls[k].scheme = s}

SchemeOfUri(uri) == IF HasExplicitScheme(uri) THEN RefScheme(uri) ELSE FILE

\* C7: fs_by_uri(uri) returns what fs_by_scheme gives for the scheme of the URI, a
\* client for a served scheme and None for any other, and raises on no URI.  The
\* code raises TypeError for a URI without a scheme (the parser's fault of C4).
C7_UriResolvesItsScheme ==
    \A k \in 1..Len(calls) :
        calls[k].op = "fs_by_uri" =>
            /\ calls[k].ret.kind = "ok"
            /\ calls[k].scheme = SchemeOfUri(calls[k].arg)
            /\ calls[k].ret.val = NoneClient
                   <=> SchemeOfUri(calls[k].arg) \notin supports[file_io.cls]

--------------------------------------------------------------------------
(* SpecConc: threads calling FileIO.fs_by_scheme, the function interface.py *)
(* defines, on one instance.  A call is the steps of the functools.cache    *)
(* wrapper: the entry, which makes the key, the lookup (which returns on a  *)
(* hit), the wrapped body, and the store of its result; cache_clear() of   *)
(* the function can be called at any point between them.  Each entry of    *)
(* calls records the thread, how the scheme was passed, the scheme, the     *)
(* values the memo held for the scheme when the call started, whether the   *)
(* call ran the body, whether it made an object, and what it returned.      *)

\* the calls the threads make: one scheme, passed in each form
ConcCallForms == {[how |-> how, scheme |-> S3] : how \in CallForms}

\* the values a memo holds for a scheme resolved on self, however it was passed
MemoizedForScheme(c, self, scheme) ==
    {c[key] : key \in {CacheKey(self, how, scheme) : how \in CallForms} \cap DOMAIN c}

\* the call thread t is inside
CurrentCall(t) ==
    CHOOSE k \in 1..Len(calls) : calls[k].t = t /\ calls[k].ret = Absent

ConcInit ==
    /\ supports = [PyArrowFileIO |-> {S3}, FsspecFileIO |-> {}]
    /\ cache = <<>>
    /\ memo = [PyArrowFileIO |-> <<>>, FsspecFileIO |-> <<>>]
    /\ made = 0
    /\ calls = <<>>
    /\ t_pc = [t \in Threads |-> "idle"]
    /\ t_arg = [t \in Threads |-> NoCall]
    /\ t_val = [t \in Threads |-> Absent]
    /\ ParseIdle
    /\ properties = EmptyDict
    /\ location = NoLocation
    /\ pc = "idle"
    /\ py_io_impl = "unset"
    /\ file_io = TheIO
    /\ warned = <<>>
    /\ constructed = <<"PyArrowFileIO">>
    /\ probes = <<>>
    /\ outcome = Pending

\* thread t calls FileIO.fs_by_scheme with file_io and a scheme, passed as `call`
\* says: the call enters the wrapper
ConcCall(t, call) ==
    /\ t_pc[t] = "idle"
    /\ Len(calls) < MaxConcCalls
    /\ calls' = Append(calls,
           [op |-> "fs_by_scheme", t |-> t, how |-> call.how, scheme |-> call.scheme,
            known |-> MemoizedForScheme(cache, file_io, call.scheme),
            ran |-> FALSE, fresh |-> FALSE, ret |-> Absent])
    /\ t_pc' = [t_pc EXCEPT ![t] = "lookup"]
    /\ t_arg' = [t_arg EXCEPT ![t] = call]
    /\ UNCHANGED <<cache, memo, made, t_val, parseVars, loadVars>>

\* the wrapper's lookup of the call's key: on a hit the call returns the memoized
\* value, on a miss it goes on to the body
ConcLookup(t) ==
    /\ t_pc[t] = "lookup"
    /\ IF CacheHit(cache, CacheKey(file_io, t_arg[t].how, t_arg[t].scheme))
       THEN /\ calls' = [calls EXCEPT ![CurrentCall(t)].ret =
                            cache[CacheKey(file_io, t_arg[t].how, t_arg[t].scheme)]]
            /\ t_pc' = [t_pc EXCEPT ![t] = "idle"]
            /\ t_arg' = [t_arg EXCEPT ![t] = NoCall]
       ELSE /\ t_pc' = [t_pc EXCEPT ![t] = "body"]
            /\ UNCHANGED <<calls, t_arg>>
    /\ UNCHANGED <<cache, memo, made, t_val, parseVars, loadVars>>

\* thread t runs the wrapped body after a miss
ConcBody(t) ==
    /\ t_pc[t] = "body"
    /\ t_val' = [t_val EXCEPT ![t] =
                     FileIO_fs_by_scheme_body(file_io, t_arg[t].scheme, made)]
    /\ made' = MadeAfter(FileIO_fs_by_scheme_body(file_io, t_arg[t].scheme, made), made)
    /\ calls' = [calls EXCEPT
                    ![CurrentCall(t)].ran = TRUE,
                    ![CurrentCall(t)].fresh =
                        MadeAfter(FileIO_fs_by_scheme_body(file_io, t_arg[t].scheme,
                                                           made), made) > made]
    /\ t_pc' = [t_pc EXCEPT ![t] = "store"]
    /\ UNCHANGED <<cache, memo, t_arg, parseVars, loadVars>>

\* thread t stores the body's result in the memo and returns it
ConcStore(t) ==
    /\ t_pc[t] = "store"
    /\ cache' = CachePut(cache, CacheKey(file_io, t_arg[t].how, t_arg[t].scheme),
                         t_val[t])
    /\ calls' = [calls EXCEPT ![CurrentCall(t)].ret = t_val[t]]
    /\ t_pc' = [t_pc EXCEPT ![t] = "idle"]
    /\ t_arg' = [t_arg EXCEPT ![t] = NoCall]
    /\ t_val' = [t_val EXCEPT ![t] = Absent]
    /\ UNCHANGED <<memo, made, parseVars, loadVars>>

\* FileIO.fs_by_scheme.cache_clear(), called from outside the resolving threads:
\* the memo is emptied, whatever the calls in progress are doing
ConcCacheClear ==
    /\ Len(calls) < MaxConcCalls
    /\ cache' = CacheClear(cache)
    /\ calls' = Append(calls,
           [op |-> "cache_clear", t |-> 0, how |-> "", scheme |-> <<>>,
            known |-> {}, ran |-> FALSE, fresh |-> FALSE, ret |-> NoneClient])
    /\ UNCHANGED <<memo, made, t_pc, t_arg, t_val, parseVars, loadVars>>

ConcNext ==
    \/ \E t \in Threads :
          \/ \E call \in ConcCallForms : ConcCall(t, call)
          \/ ConcLookup(t)
          \/ ConcBody(t)
          \/ ConcStore(t)
    \/ ConcCacheClear

SpecConc == ConcInit /\ [][ConcNext]_vars

--------------------------------------------------------------------------
(* Claims about concurrent fs_by_scheme calls, under SpecConc *)

\* a call that started when the memo held a value for its scheme, however passed,
\* returned that value and made no object
StartedKnownReuses ==
    \A k \in 1..Len(calls) :
        (calls[k].op = "fs_by_scheme" /\ calls[k].known # {} /\ calls[k].ret # Absent)
            => calls[k].known = {calls[k].ret} /\ ~calls[k].fresh

==========================================================================
